---------------------------- MODULE Spec2Model ----------------------------
(***************************************************************************)
(* CANopenTerm, src/can.c: the CAN monitor thread (can_monitor) and the    *)
(* command surface (can_set_baud_rate, can_deinit, can_quit, can_write,    *)
(* can_read) that runs on the caller's thread against the same core_t and  *)
(* the same PCAN channel (PCAN_USBBUS1).                                   *)
(*                                                                         *)
(* The code takes no lock, so every access to a field of core_t and every  *)
(* driver call is a step of its own and the two threads interleave freely. *)
(***************************************************************************)
EXTENDS Integers, Sequences, FiniteSets, TLC

\* ------------------------------------------------------------------ bounds

\* can_set_baud_rate is called with commands 0..MaxCommand under Spec.
MaxCommand == 1

\* can_set_baud_rate is called with commands 0..MaxTableIndex (and 255, the
\* largest Uint8) under SpecTable: every row of the rate table and beyond.
MaxTableIndex == 15

\* ------------------------------------------------- driver status codes

\* (core->can_status & PCAN_ERROR_OK) == core->can_status, can.c:294
PCAN_ERROR_OK == 0

\* PCAN_ERROR_ILLHW == core->can_status, can.c:307
PCAN_ERROR_ILLHW == 5120

\* A status of the spec's class Retryable: no driver / no hardware yet.
PCAN_ERROR_NODRIVER == 512

\* A status of the spec's class Other: the bus is in a heavy error state.
PCAN_ERROR_BUSHEAVY == 8

\* A status of the spec's class Other: the channel is not initialised (read,
\* write, status and close on a closed channel) or already in use (open).
PCAN_ERROR_INITIALIZE == 67108864

\* A status of the spec's class Retryable: the receive queue is empty.
PCAN_ERROR_QRCVEMPTY == 32

\* Uint8 command
UINT8_MAX == 255

\* The largest Uint16 (can_message_t.id).
UINT16_MAX == 65535

\* The largest identifier of a standard (11 bit) CAN frame.
STANDARD_ID_MAX == 2047

\* The size of can_message_t.data and of TPCANMsg.DATA; the largest length.
CAN_MAX_DLC == 8

RECURSIVE BitAnd(_, _)
\* The C operator & on unsigned values.
BitAnd(a, b) ==
    IF a = 0 \/ b = 0 THEN 0
    ELSE (a % 2) * (b % 2) + 2 * BitAnd(a \div 2, b \div 2)

\* can.c:294, the test that decides whether CAN_Initialize succeeded.
IsOk(status) == BitAnd(status, PCAN_ERROR_OK) = status

\* HardwareRemoved, were the test of line 307 "any status but Ok".
HardwareRemoved_AnyError(status) == status # PCAN_ERROR_OK

\* can.c:307, the test that decides whether the dongle was removed.
HardwareRemoved(status) == status = PCAN_ERROR_ILLHW

\* ------------------------------------------------------- the rate table

\* can.c:239-284, switch (core->baud_rate): case 3 shares its body with
\* default, so every index the other cases do not name selects 250 kBit/s.
BaudRateFor(index) ==
    CASE index = 0  -> "PCAN_BAUD_1M"
      [] index = 1  -> "PCAN_BAUD_800K"
      [] index = 2  -> "PCAN_BAUD_500K"
      [] index = 4  -> "PCAN_BAUD_125K"
      [] index = 5  -> "PCAN_BAUD_100K"
      [] index = 6  -> "PCAN_BAUD_95K"
      [] index = 7  -> "PCAN_BAUD_83K"
      [] index = 8  -> "PCAN_BAUD_50K"
      [] index = 9  -> "PCAN_BAUD_47K"
      [] index = 10 -> "PCAN_BAUD_33K"
      [] index = 11 -> "PCAN_BAUD_20K"
      [] index = 12 -> "PCAN_BAUD_10K"
      [] index = 13 -> "PCAN_BAUD_5K"
      [] OTHER      -> "PCAN_BAUD_250K"

\* can.c:194-207, the rows of the help table (CMD 0..13), each named by the
\* driver rate its description stands for ("1 MBit/s" is PCAN_BAUD_1M, ...).
HelpTable ==
    << "PCAN_BAUD_1M", "PCAN_BAUD_800K", "PCAN_BAUD_500K", "PCAN_BAUD_250K",
       "PCAN_BAUD_125K", "PCAN_BAUD_100K", "PCAN_BAUD_95K", "PCAN_BAUD_83K",
       "PCAN_BAUD_50K", "PCAN_BAUD_47K", "PCAN_BAUD_33K", "PCAN_BAUD_20K",
       "PCAN_BAUD_10K", "PCAN_BAUD_5K" >>

\* can.c:171-177, can_print_baud_rate_help: the row marked "Active" for a
\* stored index; an index above 13 is clamped to 13.
StatusIndex(index) == IF index > 13 THEN 13 ELSE index

\* The rate of the row the help table marks active (rows count from 0).
ActiveRate(index) == HelpTable[StatusIndex(index) + 1]

\* --------------------------------------------------------------- frames

\* can.h:17-23, can_message_t: Uint16 id, Uint8 length, Uint8 data[8].
Messages ==
    { [id |-> i, length |-> l, data |-> d] :
        i \in {0, 2047}, l \in {8}, d \in { <<0, 0, 0, 0, 0, 0, 0, 0>>,
                                            <<1, 2, 3, 4, 5, 6, 7, 8>> } }

\* can.c:65-74, can_write: the TPCANMsg built from a can_message_t.
WireFrame(message) ==
    [ID      |-> message.id,
     MSGTYPE |-> "PCAN_MESSAGE_STANDARD",
     LEN     |-> message.length,
     DATA    |-> [index \in 1..8 |-> message.data[index]]]

\* can.c:83, TPCANMsg pcan_message = { 0 }
ZeroFrame ==
    [ID |-> 0, MSGTYPE |-> "PCAN_MESSAGE_STANDARD", LEN |-> 0,
     DATA |-> [index \in 1..8 |-> 0]]

\* can.c:119, can_message_t message = { 0 }
ZeroMessage ==
    [id |-> 0, length |-> 0, data |-> [index \in 1..8 |-> 0]]

\* A can_read whose copy loop started at index 1 (data[0] left as it was).
ReadMessage_SkipsFirstByte(pcan_message) ==
    [id     |-> pcan_message.ID % (UINT16_MAX + 1),
     length |-> pcan_message.LEN % (UINT8_MAX + 1),
     data   |-> [index \in 1..8 |->
                   IF index = 1 THEN 0
                   ELSE pcan_message.DATA[index] % (UINT8_MAX + 1)]]

\* can.c:87-93, can_read: the can_message_t filled from a TPCANMsg; the
\* DWORD ID is stored into the Uint16 id.
ReadMessage(pcan_message) ==
    [id     |-> pcan_message.ID % (UINT16_MAX + 1),
     length |-> pcan_message.LEN % (UINT8_MAX + 1),
     data   |-> [index \in 1..8 |->
                   pcan_message.DATA[index] % (UINT8_MAX + 1)]]

\* (word >> shift) & 0xff
Byte(word, shift) == (word \div (2 ^ shift)) % (UINT8_MAX + 1)

\* can.c:115-131, lua_can_write: the can_message_t built from the four Lua
\* integers; the int can_id is stored into the Uint16 id, the int length
\* into the Uint8 length, the data words are split most significant byte
\* first.
LuaMessage(can_id, length, data_d0_d3, data_d4_d7) ==
    [id     |-> can_id % (UINT16_MAX + 1),
     length |-> length % (UINT8_MAX + 1),
     data   |-> <<Byte(data_d0_d3, 24), Byte(data_d0_d3, 16),
                  Byte(data_d0_d3, 8),  Byte(data_d0_d3, 0),
                  Byte(data_d4_d7, 24), Byte(data_d4_d7, 16),
                  Byte(data_d4_d7, 8),  Byte(data_d4_d7, 0)>>]

\* The payloads of the frames sent through the conversions.
Payloads ==
    { <<0, 0, 0, 0, 0, 0, 0, 0>>,
      <<1, 2, 3, 4, 5, 6, 7, 8>>,
      <<255, 254, 128, 127, 64, 32, 16, 255>> }

\* The valid frames: standard identifier, length 0..8, 8 payload bytes.
ValidMessages ==
    { [id |-> i, length |-> l, data |-> d] :
        i \in 0..STANDARD_ID_MAX, l \in 0..CAN_MAX_DLC, d \in Payloads }

\* The integers a Lua script passes as can_id and as length.
LuaIds == {-1, 0, 291, STANDARD_ID_MAX, STANDARD_ID_MAX + 1, UINT16_MAX,
           UINT16_MAX + 1}
LuaLengths == {-1, 0, CAN_MAX_DLC, CAN_MAX_DLC + 1, UINT8_MAX + 1}

\* The integers a Lua script passes as data words (below 2^31).
LuaWords == {0, 16909060, 2147483647}

\* ---------------------------------------------------------------- state

VARIABLES
    is_running,          \* core->is_running
    is_can_initialised,  \* core->is_can_initialised
    baud_rate,           \* core->baud_rate (Uint8)
    can_status,          \* core->can_status (Uint32)
    hw_attached,         \* the USB dongle is plugged in
    chan_open,           \* the driver holds an open handle for PCAN_USBBUS1
    chan_rate,           \* the rate that handle was initialised at
    call,                \* the driver call made by the last step, if any
    mpc,                 \* the monitor thread's position in can_monitor
    m_baud,              \* can_monitor's local TPCANBaudrate baud_rate
    m_ret,               \* what CAN_Initialize / CAN_GetStatus last returned
    m_removed,           \* the removal branch (can.c:309-314) has just run
    cpc,                 \* the caller thread's position
    c_op,                \* the API function the caller is inside
    requested,           \* the command of the latest can_set_baud_rate call
    codec                \* a frame on its way through can_write and can_read

coreVars == <<is_running, is_can_initialised, baud_rate, can_status>>
drvVars  == <<hw_attached, chan_open, chan_rate>>
monVars  == <<mpc, m_baud, m_ret, m_removed>>
callVars == <<cpc, c_op, requested>>
vars     == <<coreVars, drvVars, call, monVars, callVars, codec>>

\* No can_set_baud_rate call so far (no Uint8 command has this value).
NoRequest == UINT8_MAX + 1

\* The step made no driver call.
NoCall ==
    [op |-> "none", by |-> "none", open |-> FALSE, init |-> FALSE,
     rate |-> "none", msg |-> ZeroFrame, ret |-> 0]

\* No frame is on its way.
NoCodec ==
    [pc |-> "idle", by |-> "none", message |-> ZeroMessage,
     pcan_message |-> ZeroFrame, received |-> ZeroMessage, lua_ret |-> 0]

\* A driver call: who made it, whether a handle was open and what
\* is_can_initialised read when it was invoked, and what it returned.
DriverCall(op, by, rate, msg, ret) ==
    [op |-> op, by |-> by, open |-> chan_open, init |-> is_can_initialised,
     rate |-> rate, msg |-> msg, ret |-> ret]

\* --------------------------------------------------------------- driver
\* PCANBasic is an external library.  The model keeps what the code relies
\* on: one handle per channel, opened by CAN_Initialize and held until
\* CAN_Uninitialize; unplugging the dongle does not release the handle.

\* The statuses CAN_Initialize can return: success when the dongle is there
\* and the channel is free, an error when the channel is already in use or
\* the dongle is missing.
InitializeStatuses ==
    IF chan_open THEN {PCAN_ERROR_INITIALIZE}
    ELSE IF hw_attached THEN {PCAN_ERROR_OK}
    ELSE {PCAN_ERROR_NODRIVER, PCAN_ERROR_ILLHW}

\* The statuses CAN_GetStatus can return.
GetStatusStatuses ==
    IF ~chan_open THEN {PCAN_ERROR_INITIALIZE}
    ELSE IF hw_attached THEN {PCAN_ERROR_OK, PCAN_ERROR_BUSHEAVY}
    ELSE {PCAN_ERROR_ILLHW}

\* The status CAN_Uninitialize returns (the code discards it).
UninitializeStatus ==
    IF chan_open THEN PCAN_ERROR_OK ELSE PCAN_ERROR_INITIALIZE

\* The statuses CAN_Write can return.
WriteStatuses ==
    IF ~chan_open THEN {PCAN_ERROR_INITIALIZE}
    ELSE IF hw_attached THEN {PCAN_ERROR_OK, PCAN_ERROR_BUSHEAVY}
    ELSE {PCAN_ERROR_ILLHW}

\* The statuses CAN_Read can return.
ReadStatuses ==
    IF ~chan_open THEN {PCAN_ERROR_INITIALIZE}
    ELSE IF hw_attached THEN {PCAN_ERROR_OK, PCAN_ERROR_QRCVEMPTY}
    ELSE {PCAN_ERROR_ILLHW}

\* CAN_Initialize(PCAN_USBBUS1, rate, ...) returning status.
CAN_Initialize(by, rate, status) ==
    /\ status \in InitializeStatuses
    /\ chan_open' = (chan_open \/ status = PCAN_ERROR_OK)
    /\ chan_rate' = IF status = PCAN_ERROR_OK THEN rate ELSE chan_rate
    /\ call' = DriverCall("CAN_Initialize", by, rate, ZeroFrame, status)
    /\ UNCHANGED hw_attached

\* CAN_Uninitialize(PCAN_USBBUS1).
CAN_Uninitialize(by) ==
    /\ chan_open' = FALSE
    /\ chan_rate' = "none"
    /\ call' = DriverCall("CAN_Uninitialize", by, "none", ZeroFrame,
                          UninitializeStatus)
    /\ UNCHANGED hw_attached

\* CAN_GetStatus(PCAN_USBBUS1) returning status.
CAN_GetStatus(by, status) ==
    /\ status \in GetStatusStatuses
    /\ call' = DriverCall("CAN_GetStatus", by, "none", ZeroFrame, status)
    /\ UNCHANGED drvVars

\* CAN_Write(PCAN_USBBUS1, &pcan_message) returning status.
CAN_Write(by, pcan_message, status) ==
    /\ status \in WriteStatuses
    /\ call' = DriverCall("CAN_Write", by, "none", pcan_message, status)
    /\ UNCHANGED drvVars

\* CAN_Read(PCAN_USBBUS1, &pcan_message, NULL) returning status.
CAN_Read(by, pcan_message, status) ==
    /\ status \in ReadStatuses
    /\ call' = DriverCall("CAN_Read", by, "none", pcan_message, status)
    /\ UNCHANGED drvVars

\* The dongle is plugged in.
Plug ==
    /\ ~hw_attached
    /\ hw_attached' = TRUE
    /\ call' = NoCall
    /\ UNCHANGED <<chan_open, chan_rate, coreVars, monVars, callVars>>
    /\ UNCHANGED codec

\* The dongle is pulled out; the handle stays with the application.
Unplug ==
    /\ hw_attached
    /\ hw_attached' = FALSE
    /\ call' = NoCall
    /\ UNCHANGED <<chan_open, chan_rate, coreVars, monVars, callVars>>
    /\ UNCHANGED codec

\* ----------------------------------------------------------------- Init

\* core_t is allocated and filled outside can.c: the loop runs, the channel
\* is disconnected, no status has been stored.
InitCore ==
    /\ is_running = TRUE
    /\ is_can_initialised = FALSE
    /\ can_status = 0

\* can.c assigns core->baud_rate its default only at line 231, in the
\* monitor thread; until then the field holds what the allocation left.
InitialBaudRates == (0..MaxCommand) \cup {3}

\* The state before can_init.
Init ==
    /\ InitCore
    /\ baud_rate \in InitialBaudRates
    /\ hw_attached \in BOOLEAN
    /\ chan_open = FALSE
    /\ chan_rate = "none"
    /\ call = NoCall
    /\ mpc = "none"
    /\ m_baud = "none"
    /\ m_ret = 0
    /\ m_removed = FALSE
    /\ cpc = "idle"
    /\ c_op = "none"
    /\ requested = NoRequest
    /\ codec = NoCodec

\* can.c:24-32, can_init: SDL_CreateThread(can_monitor, ..., core).
CanInit ==
    /\ cpc = "idle"
    /\ mpc = "none"
    /\ mpc' = "m_entry"
    /\ call' = NoCall
    /\ UNCHANGED <<coreVars, drvVars, m_baud, m_ret, m_removed, callVars>>
    /\ UNCHANGED codec

\* ------------------------------------------------- the monitor thread

\* can.c:226-231: core->baud_rate = 3.
MonitorEntry ==
    /\ mpc = "m_entry"
    /\ baud_rate' = 3
    /\ mpc' = "m_outer"
    /\ call' = NoCall
    /\ UNCHANGED <<is_running, is_can_initialised, can_status, drvVars,
                   m_baud, m_ret, m_removed, callVars>>
    /\ UNCHANGED codec

\* can.c:233: while (SDL_TRUE == core->is_running); can.c:319: return 0.
MonitorOuter ==
    /\ mpc = "m_outer"
    /\ mpc' = IF is_running THEN "m_inner" ELSE "m_done"
    /\ call' = NoCall
    /\ UNCHANGED <<coreVars, drvVars, m_baud, m_ret, m_removed, callVars>>
    /\ UNCHANGED codec

\* can.c:235: while (SDL_FALSE == is_can_initialised(core)).
MonitorInner ==
    /\ mpc = "m_inner"
    /\ mpc' = IF is_can_initialised THEN "m_poll" ELSE "m_switch"
    /\ m_removed' = FALSE
    /\ call' = NoCall
    /\ UNCHANGED <<coreVars, drvVars, m_baud, m_ret, callVars>>
    /\ UNCHANGED codec

\* can.c:239-284: switch (core->baud_rate) sets the local baud_rate.
MonitorSwitch ==
    /\ mpc = "m_switch"
    /\ m_baud' = BaudRateFor(baud_rate)
    /\ mpc' = "m_open"
    /\ call' = NoCall
    /\ UNCHANGED <<coreVars, drvVars, m_ret, m_removed, callVars>>
    /\ UNCHANGED codec

\* can.c:286-292: core->can_status = CAN_Initialize(PCAN_USBBUS1, baud_rate,
\* PCAN_USB, 0, 0); CAN_GetErrorText only fills a local buffer.
MonitorOpen ==
    /\ mpc = "m_open"
    /\ \E status \in InitializeStatuses :
          /\ CAN_Initialize("monitor", m_baud, status)
          /\ can_status' = status
          /\ m_ret' = status
    /\ mpc' = "m_okay"
    /\ UNCHANGED <<is_running, is_can_initialised, baud_rate, m_baud,
                   m_removed, callVars>>
    /\ UNCHANGED codec

\* A monitor that gave up (returned) when an open attempt failed.
MonitorOkay_ReturnsOnError ==
    /\ mpc = "m_okay"
    /\ mpc' = IF IsOk(can_status) THEN "m_flag" ELSE "m_done"
    /\ call' = NoCall
    /\ UNCHANGED <<coreVars, drvVars, m_baud, m_ret, m_removed, callVars>>
    /\ UNCHANGED codec

\* can.c:294: if ((core->can_status & PCAN_ERROR_OK) == core->can_status).
MonitorOkay ==
    /\ mpc = "m_okay"
    /\ mpc' = IF IsOk(can_status) THEN "m_flag" ELSE "m_delay"
    /\ call' = NoCall
    /\ UNCHANGED <<coreVars, drvVars, m_baud, m_ret, m_removed, callVars>>
    /\ UNCHANGED codec

\* can.c:296-298: core->is_can_initialised = SDL_TRUE.
MonitorFlag ==
    /\ mpc = "m_flag"
    /\ is_can_initialised' = TRUE
    /\ mpc' = "m_delay"
    /\ call' = NoCall
    /\ UNCHANGED <<is_running, baud_rate, can_status, drvVars, m_baud,
                   m_ret, m_removed, callVars>>
    /\ UNCHANGED codec

\* can.c:301-302: SDL_Delay(10); continue (back to the test of line 235).
MonitorDelay ==
    /\ mpc = "m_delay"
    /\ mpc' = "m_inner"
    /\ call' = NoCall
    /\ UNCHANGED <<coreVars, drvVars, m_baud, m_ret, m_removed, callVars>>
    /\ UNCHANGED codec

\* can.c:305: core->can_status = CAN_GetStatus(PCAN_USBBUS1).
MonitorPoll ==
    /\ mpc = "m_poll"
    /\ \E status \in GetStatusStatuses :
          /\ CAN_GetStatus("monitor", status)
          /\ can_status' = status
          /\ m_ret' = status
    /\ mpc' = "m_illhw"
    /\ UNCHANGED <<is_running, is_can_initialised, baud_rate, m_baud,
                   m_removed, callVars>>
    /\ UNCHANGED codec

\* can.c:307: if (PCAN_ERROR_ILLHW == core->can_status).
MonitorIllHw ==
    /\ mpc = "m_illhw"
    /\ mpc' = IF HardwareRemoved(can_status) THEN "m_rm_status"
              ELSE "m_tick"
    /\ call' = NoCall
    /\ UNCHANGED <<coreVars, drvVars, m_baud, m_ret, m_removed, callVars>>
    /\ UNCHANGED codec

\* can.c:309: core->can_status = 0.
MonitorRemovedStatus ==
    /\ mpc = "m_rm_status"
    /\ can_status' = 0
    /\ mpc' = "m_rm_flag"
    /\ call' = NoCall
    /\ UNCHANGED <<is_running, is_can_initialised, baud_rate, drvVars,
                   m_baud, m_ret, m_removed, callVars>>
    /\ UNCHANGED codec

\* can.c:310: core->is_can_initialised = SDL_FALSE.
MonitorRemovedFlag ==
    /\ mpc = "m_rm_flag"
    /\ is_can_initialised' = FALSE
    /\ mpc' = "m_rm_uninit"
    /\ call' = NoCall
    /\ UNCHANGED <<is_running, baud_rate, can_status, drvVars, m_baud,
                   m_ret, m_removed, callVars>>
    /\ UNCHANGED codec

\* can.c:312-314: CAN_Uninitialize(PCAN_USBBUS1) and the log line.
MonitorRemovedUninit ==
    /\ mpc = "m_rm_uninit"
    /\ CAN_Uninitialize("monitor")
    /\ mpc' = "m_tick"
    /\ m_removed' = TRUE
    /\ UNCHANGED <<coreVars, m_baud, m_ret, callVars>>
    /\ UNCHANGED codec

\* can.c:316: SDL_Delay(10), then back to the test of line 233.
MonitorTick ==
    /\ mpc = "m_tick"
    /\ mpc' = "m_outer"
    /\ call' = NoCall
    /\ UNCHANGED <<coreVars, drvVars, m_baud, m_ret, m_removed, callVars>>
    /\ UNCHANGED codec

\* can.c:221-320, can_monitor: one step of the thread.
Monitor ==
    \/ MonitorEntry
    \/ MonitorOuter
    \/ MonitorInner
    \/ MonitorSwitch
    \/ MonitorOpen
    \/ MonitorOkay
    \/ MonitorFlag
    \/ MonitorDelay
    \/ MonitorPoll
    \/ MonitorIllHw
    \/ MonitorRemovedStatus
    \/ MonitorRemovedFlag
    \/ MonitorRemovedUninit
    \/ MonitorTick

\* --------------------------------------------------- the caller's thread

\* can_init has created the monitor thread.
Started == mpc # "none"

\* can.c:98-105, can_set_baud_rate(command, core): core->baud_rate = command.
CanSetBaudRate(command) ==
    /\ Started
    /\ cpc = "idle"
    /\ baud_rate' = command
    /\ requested' = command
    /\ c_op' = "can_set_baud_rate"
    /\ cpc' = "sbr_test"
    /\ call' = NoCall
    /\ UNCHANGED <<is_running, is_can_initialised, can_status, drvVars,
                   monVars>>
    /\ UNCHANGED codec

\* can.c:107-111: if (SDL_TRUE == is_can_initialised(core)) can_deinit(core).
SetBaudRateTest ==
    /\ cpc = "sbr_test"
    /\ IF is_can_initialised
         THEN cpc' = "deinit_status" /\ UNCHANGED c_op
         ELSE cpc' = "idle" /\ c_op' = "none"
    /\ call' = NoCall
    /\ UNCHANGED <<coreVars, drvVars, monVars, requested>>
    /\ UNCHANGED codec

\* can.c:34-39, can_deinit(core) called by another module.
CanDeinit ==
    /\ Started
    /\ cpc = "idle"
    /\ c_op' = "can_deinit"
    /\ cpc' = "deinit_status"
    /\ call' = NoCall
    /\ UNCHANGED <<coreVars, drvVars, monVars, requested>>
    /\ UNCHANGED codec

\* can.c:41: core->can_status = 0.
DeinitStatus ==
    /\ cpc = "deinit_status"
    /\ can_status' = 0
    /\ cpc' = "deinit_flag"
    /\ call' = NoCall
    /\ UNCHANGED <<is_running, is_can_initialised, baud_rate, drvVars,
                   monVars, c_op, requested>>
    /\ UNCHANGED codec

\* can.c:42: core->is_can_initialised = SDL_FALSE.
DeinitFlag ==
    /\ cpc = "deinit_flag"
    /\ is_can_initialised' = FALSE
    /\ cpc' = "deinit_uninit"
    /\ call' = NoCall
    /\ UNCHANGED <<is_running, baud_rate, can_status, drvVars, monVars,
                   c_op, requested>>
    /\ UNCHANGED codec

\* A can_deinit that kept the status of its CAN_Uninitialize in
\* core->can_status: closing a closed channel would then record an error.
DeinitUninit_StoresStatus ==
    /\ cpc = "deinit_uninit"
    /\ CAN_Uninitialize("caller")
    /\ can_status' = UninitializeStatus
    /\ IF c_op = "can_quit"
         THEN cpc' = "quit_detach" /\ UNCHANGED c_op
         ELSE cpc' = "idle" /\ c_op' = "none"
    /\ UNCHANGED <<is_running, is_can_initialised, baud_rate, monVars,
                   requested>>
    /\ UNCHANGED codec

\* can.c:44: CAN_Uninitialize(PCAN_USBBUS1), then the return to can_quit
\* (line 59 follows) or out of the API.
DeinitUninit ==
    /\ cpc = "deinit_uninit"
    /\ CAN_Uninitialize("caller")
    /\ IF c_op = "can_quit"
         THEN cpc' = "quit_detach" /\ UNCHANGED c_op
         ELSE cpc' = "idle" /\ c_op' = "none"
    /\ UNCHANGED <<coreVars, monVars, requested>>
    /\ UNCHANGED codec

\* can.c:47-57, can_quit(core): if (SDL_TRUE == is_can_initialised(core))
\* can_deinit(core).
CanQuit ==
    /\ Started
    /\ cpc = "idle"
    /\ c_op' = "can_quit"
    /\ cpc' = IF is_can_initialised THEN "deinit_status" ELSE "quit_detach"
    /\ call' = NoCall
    /\ UNCHANGED <<coreVars, drvVars, monVars, requested>>
    /\ UNCHANGED codec

\* can.c:59: SDL_DetachThread(core->can_monitor_th); the thread runs on.
\* can_quit is the teardown: the caller makes no call after it.
QuitDetach ==
    /\ cpc = "quit_detach"
    /\ cpc' = "quit"
    /\ c_op' = "none"
    /\ call' = NoCall
    /\ UNCHANGED <<coreVars, drvVars, monVars, requested>>
    /\ UNCHANGED codec

\* A can_write that kept the driver's status in core->can_status, the way
\* the monitor does with the statuses of lines 286 and 305.
CanWrite_StoresStatus(message) ==
    /\ Started
    /\ cpc = "idle"
    /\ \E status \in WriteStatuses :
          /\ CAN_Write("caller", WireFrame(message), status)
          /\ can_status' = status
    /\ UNCHANGED <<is_running, is_can_initialised, baud_rate, monVars,
                   callVars>>
    /\ UNCHANGED codec

\* can.c:62-77, can_write(message): builds the TPCANMsg and returns
\* CAN_Write's status; it reads no field of core_t.
CanWrite(message) ==
    /\ Started
    /\ cpc = "idle"
    /\ \E status \in WriteStatuses :
          CAN_Write("caller", WireFrame(message), status)
    /\ UNCHANGED <<coreVars, monVars, callVars>>
    /\ UNCHANGED codec

\* can.c:79-96, can_read(message): CAN_Read fills pcan_message (left zeroed
\* when nothing was received) and the message is copied out of it.
CanRead ==
    /\ Started
    /\ cpc = "idle"
    /\ \E status \in ReadStatuses :
          \E pcan_message \in
                IF status = PCAN_ERROR_OK
                  THEN {WireFrame(message) : message \in Messages}
                  ELSE {ZeroFrame} :
             CAN_Read("caller", pcan_message, status)
    /\ UNCHANGED <<coreVars, monVars, callVars>>
    /\ UNCHANGED codec

\* The stop signal: the owner of core_t clears core->is_running.
Stop ==
    /\ Started
    /\ cpc = "idle"
    /\ is_running
    /\ is_running' = FALSE
    /\ call' = NoCall
    /\ UNCHANGED <<is_can_initialised, baud_rate, can_status, drvVars,
                   monVars, callVars>>
    /\ UNCHANGED codec

\* ------------------------------------------------- frame conversions
\* One frame is followed from the caller of can_write through the TPCANMsg
\* handed to CAN_Write and, looped back by the bus, through can_read.

\* The channel is connected at the default rate and the monitor sleeps in
\* its tick (line 316).
InitCodec ==
    /\ is_running = TRUE
    /\ is_can_initialised = TRUE
    /\ baud_rate = 3
    /\ can_status = PCAN_ERROR_OK
    /\ hw_attached = TRUE
    /\ chan_open = TRUE
    /\ chan_rate = BaudRateFor(3)
    /\ call = NoCall
    /\ mpc = "m_tick"
    /\ m_baud = BaudRateFor(3)
    /\ m_ret = PCAN_ERROR_OK
    /\ m_removed = FALSE
    /\ cpc = "idle"
    /\ c_op = "none"
    /\ requested = NoRequest
    /\ codec = NoCodec

\* can.c:113-131, lua_can_write up to its call of can_write.
LuaCanWrite ==
    /\ codec.pc = "idle"
    /\ \E can_id \in LuaIds, length \in LuaLengths :
          \E data_d0_d3 \in LuaWords, data_d4_d7 \in LuaWords :
             codec' = [codec EXCEPT
                          !.pc = "write",
                          !.by = "lua_can_write",
                          !.message = LuaMessage(can_id, length,
                                                 data_d0_d3, data_d4_d7)]
    /\ call' = NoCall
    /\ UNCHANGED <<coreVars, drvVars, monVars, callVars>>

\* can.c:62, can_write(message) called with a valid frame.
CanWriteValid ==
    /\ codec.pc = "idle"
    /\ \E message \in ValidMessages :
          codec' = [codec EXCEPT
                       !.pc = "write", !.by = "can_write",
                       !.message = message]
    /\ call' = NoCall
    /\ UNCHANGED <<coreVars, drvVars, monVars, callVars>>

\* can.c:64-76, the body of can_write, and can.c:133-140, what
\* lua_can_write returns for its status.
CanWriteFrame ==
    /\ codec.pc = "write"
    /\ \E status \in WriteStatuses :
          /\ CAN_Write("caller", WireFrame(codec.message), status)
          /\ codec' = [codec EXCEPT
                          !.pc = "read",
                          !.pcan_message = WireFrame(codec.message),
                          !.lua_ret =
                              IF codec.by = "lua_can_write" /\ status = 0
                                THEN 1 ELSE 0]
    /\ UNCHANGED <<coreVars, monVars, callVars>>

\* can.c:79-96, can_read: the driver delivers the frame that was written
\* (status Ok) or nothing (the TPCANMsg stays zeroed).
CanReadFrame ==
    /\ codec.pc = "read"
    /\ \E status \in ReadStatuses :
          LET pcan_message ==
                  IF status = PCAN_ERROR_OK THEN codec.pcan_message
                  ELSE ZeroFrame
          IN  /\ CAN_Read("caller", pcan_message, status)
              /\ codec' = [codec EXCEPT
                              !.pc = "done",
                              !.received = ReadMessage(pcan_message)]
    /\ UNCHANGED <<coreVars, monVars, callVars>>

\* ------------------------------------------------------- specifications

\* The commands can_set_baud_rate is called with under Spec.
Commands == 0..MaxCommand

\* The commands can_set_baud_rate is called with under SpecTable.
TableCommands == (0..MaxTableIndex) \cup {UINT8_MAX}

\* The steps of can_set_baud_rate and can_deinit after the call.
Deinit ==
    \/ SetBaudRateTest
    \/ DeinitStatus
    \/ DeinitFlag
    \/ DeinitUninit

Next ==
    \/ CanInit
    \/ Monitor
    \/ Plug
    \/ Unplug
    \/ \E command \in Commands : CanSetBaudRate(command)
    \/ Deinit
    \/ CanDeinit
    \/ CanQuit
    \/ QuitDetach
    \/ \E message \in Messages : CanWrite(message)
    \/ CanRead
    \/ Stop

\* Both threads against one channel, commands 0..MaxCommand.
Spec == Init /\ [][Next]_vars

\* The monitor thread is scheduled again and again: none of its steps
\* blocks (SDL_Delay returns, the driver calls are bounded by the driver).
FairSpec == Spec /\ WF_vars(Monitor)

NextTable ==
    \/ CanInit
    \/ Monitor
    \/ Plug
    \/ Unplug
    \/ \E command \in TableCommands : CanSetBaudRate(command)
    \/ Deinit

\* The monitor against can_set_baud_rate alone, every Uint8 command class.
SpecTable == Init /\ [][NextTable]_vars

NextCodec ==
    \/ CanWriteValid
    \/ LuaCanWrite
    \/ CanWriteFrame
    \/ CanReadFrame

\* One frame through can_write and can_read, every valid frame and the
\* frames lua_can_write builds.
SpecCodec == InitCodec /\ [][NextCodec]_vars

\* ---------------------------------------------------------------- claims

\* C1: the driver's open primitive is never invoked while a handle opened
\* earlier has not yet been closed by CAN_Uninitialize (at most one handle
\* is open, under any interleaving of the monitor with can_set_baud_rate,
\* can_deinit and can_quit).
C1_OpenOnlyWhenClosed ==
    call.op = "CAN_Initialize" => ~call.open

\* C2: whenever is_can_initialised is true, the handle is open and was
\* initialised at the rate of the stored baud_rate index.  Read at the states
\* where the caller is inside no API call, so that the store of line 105 on
\* its way to can_deinit does not count against the claim.
C2_OpenAtStoredRate ==
    (is_can_initialised /\ c_op = "none")
        => (chan_open /\ chan_rate = BaudRateFor(baud_rate))

\* C3: whenever is_can_initialised is false no driver handle is held, the
\* intermediate states of can_deinit, of the removal branch and of a
\* successful open included.
C3_ClosedWhenFlagFalse ==
    ~is_can_initialised => ~chan_open

\* C4: once can_set_baud_rate(n) has returned (and until the next call) the
\* channel is never connected at a rate other than the one for index n.
C4_ConnectedAtRequestedRate ==
    (requested # NoRequest /\ c_op # "can_set_baud_rate"
        /\ is_can_initialised /\ chan_open)
        => chan_rate = BaudRateFor(requested)

\* The step clears is_can_initialised.
FlagCleared == is_can_initialised /\ ~is_can_initialised'

\* The step is line 42 of can_deinit, run for one of the API functions ops.
ClearedByDeinit(ops) ==
    cpc = "deinit_flag" /\ cpc' = "deinit_uninit" /\ c_op \in ops

\* The step is line 310 of the monitor, after its poll returned ILLHW.
ClearedByRemoval ==
    mpc = "m_rm_flag" /\ mpc' = "m_rm_uninit" /\ m_ret = PCAN_ERROR_ILLHW

\* C5 (as stated): once set, is_can_initialised stays true until
\* can_set_baud_rate is called or the monitor's poll observes
\* PCAN_ERROR_ILLHW: nothing else ever clears it.
C5_ClearedOnlyBySetBaudRateOrRemoval ==
    [][FlagCleared =>
          (ClearedByDeinit({"can_set_baud_rate"}) \/ ClearedByRemoval)]_vars

\* C5 (amended): once set, is_can_initialised stays true until can_deinit
\* clears it (on behalf of can_set_baud_rate or of can_quit, or called
\* directly) or the monitor clears it after its poll returned
\* PCAN_ERROR_ILLHW; no other poll status and no can_read or can_write call
\* clears it.
C5_ClearedOnlyByDeinitOrRemoval ==
    [][FlagCleared =>
          (ClearedByDeinit({"can_set_baud_rate", "can_quit", "can_deinit"})
              \/ ClearedByRemoval)]_vars

\* C5 witness: the channel is connected, the poll has just returned a status
\* other than Ok and other than ILLHW, and the monitor has gone on to its
\* tick with the flag still set.
C5_Witness ==
    /\ is_can_initialised
    /\ mpc = "m_tick"
    /\ m_ret = PCAN_ERROR_BUSHEAVY
    /\ ~m_removed

\* C6: whenever the poll of the connected monitor returns PCAN_ERROR_ILLHW,
\* the monitor enters its removal branch, which leaves the handle closed and
\* is_can_initialised false, and (the loop still running) its next step
\* after the tick is an open attempt.
C6_RemovalReopens ==
    [][/\ (mpc = "m_illhw" /\ mpc' # mpc /\ m_ret = PCAN_ERROR_ILLHW)
            => mpc' = "m_rm_status"
       /\ (mpc = "m_rm_uninit" /\ mpc' # mpc)
            => (~chan_open' /\ ~is_can_initialised' /\ mpc' = "m_tick")
       /\ (m_removed /\ mpc = "m_tick" /\ mpc' # mpc) => mpc' = "m_outer"
       /\ (m_removed /\ mpc = "m_outer" /\ mpc' # mpc /\ is_running)
            => mpc' = "m_inner"
       /\ (m_removed /\ mpc = "m_inner" /\ mpc' # mpc)
            => mpc' = "m_switch"
       /\ (mpc = "m_switch" /\ mpc' # mpc) => mpc' = "m_open"]_vars

\* C7: the driver write primitive is only ever invoked while the channel is
\* connected: a can_write made while is_can_initialised is false does not
\* reach CAN_Write.
C7_WriteOnlyWhenConnected ==
    call.op = "CAN_Write" => call.init

\* C8: the open attempt passes the driver the table entry of the stored
\* index (0 = 1M, ..., 13 = 5K), and for an index above 13 the entry of
\* index 13.
C8_TableRate ==
    [][/\ (mpc = "m_switch" /\ mpc' = "m_open")
            => m_baud' = ActiveRate(baud_rate)
       /\ (mpc = "m_open" /\ mpc' = "m_okay")
            => (call'.op = "CAN_Initialize" /\ call'.rate = m_baud)]_vars

\* C9: from can_init on, as long as can_set_baud_rate has not been called,
\* the stored index is 3 and every open attempt uses 250 kBit/s.
C9_DefaultIndex ==
    (Started /\ requested = NoRequest)
        => /\ baud_rate = 3
           /\ mpc = "m_open" => m_baud = "PCAN_BAUD_250K"
           /\ call.op = "CAN_Initialize" => call.rate = "PCAN_BAUD_250K"

\* C10: once is_running is false the monitor loop terminates, in every
\* connection state, also while every open attempt fails.
C10_StopTerminates ==
    (~is_running) ~> (mpc = "m_done")

\* C11: once the shutdown is complete (is_running is false, can_quit has
\* returned and the monitor has left its loop) no driver handle is open: the
\* monitor does not reopen the channel after can_quit's can_deinit closed
\* it, and can_quit does not miss a handle the monitor holds.
C11_ClosedAfterShutdown ==
    (~is_running /\ cpc = "quit" /\ mpc = "m_done") => ~chan_open

\* The monitor stands at one of its three driver calls (lines 286, 305, 312).
MonitorAtDriverCall == mpc \in {"m_open", "m_poll", "m_rm_uninit"}

\* The caller stands at the driver call of can_deinit (line 44).
CallerAtDriverCall == cpc = "deinit_uninit"

\* The monitor has read is_can_initialised (line 235) and has not yet acted
\* on it with CAN_Initialize (line 286).
MonitorBetweenTestAndOpen == mpc \in {"m_switch", "m_open"}

\* The monitor has read baud_rate (line 237) and has not yet acted on it
\* with CAN_Initialize (line 286).
MonitorBetweenSwitchAndOpen == mpc = "m_open"

\* The caller has read is_can_initialised (line 107 or 54) and has not yet
\* acted on it with CAN_Uninitialize (line 44).
CallerBetweenTestAndClose ==
    cpc \in {"deinit_status", "deinit_flag", "deinit_uninit"}
        /\ c_op \in {"can_set_baud_rate", "can_quit"}

\* C12: the monitor and the caller are never at a driver call at the same
\* time, and neither changes is_can_initialised or baud_rate while the other
\* is between reading them and acting on them.
C12_MutualExclusion ==
    [][/\ ~(MonitorAtDriverCall /\ CallerAtDriverCall)
       /\ MonitorBetweenSwitchAndOpen => baud_rate' = baud_rate
       /\ MonitorBetweenTestAndOpen
            => is_can_initialised' = is_can_initialised
       /\ (CallerBetweenTestAndClose /\ cpc' = cpc)
            => is_can_initialised' = is_can_initialised]_vars

\* C13: a can_write call, at whatever point of the monitor's connect or
\* reconnect sequence it is made, changes neither is_can_initialised nor
\* baud_rate nor can_status: what the monitor has stored stays stored.
C13_WriteKeepsChannelState ==
    [][call'.op = "CAN_Write"
          => /\ is_can_initialised' = is_can_initialised
             /\ baud_rate' = baud_rate
             /\ can_status' = can_status]_vars

\* C13 witness: can_write has just run between the monitor's successful
\* CAN_Initialize (line 286) and its store of the flag (line 297).
C13_Witness ==
    /\ call.op = "CAN_Write"
    /\ mpc = "m_flag"
    /\ m_ret = PCAN_ERROR_OK
    /\ ~is_can_initialised

\* The step is one of the three statements of can_deinit (lines 41-44).
DeinitStep ==
    cpc \in {"deinit_status", "deinit_flag", "deinit_uninit"} /\ cpc' # cpc

\* C14: can_deinit on a channel that is already closed (is_can_initialised
\* false, no handle held) is a no-op that records no error: each of its
\* statements leaves is_can_initialised false and the driver without a
\* handle, changes nothing in the driver, and stores no status other than
\* the 0 of line 41; the status of the driver call is not recorded, and the
\* call returns.
C14_CloseIdempotent ==
    [][(DeinitStep /\ ~is_can_initialised /\ ~chan_open)
          => /\ ~is_can_initialised'
             /\ ~chan_open'
             /\ UNCHANGED drvVars
             /\ can_status' = IF cpc = "deinit_status" THEN 0 ELSE can_status
             /\ cpc = "deinit_uninit" => cpc' \in {"idle", "quit_detach"}]_vars

\* C14 witness: can_deinit has just returned from a CAN_Uninitialize made
\* while no handle was open and the flag was false; the driver answered with
\* an error status, which was discarded, and the state is that of one close.
C14_Witness ==
    /\ call.op = "CAN_Uninitialize"
    /\ call.by = "caller"
    /\ ~call.open
    /\ ~call.init
    /\ call.ret = PCAN_ERROR_INITIALIZE
    /\ cpc = "idle"
    /\ can_status = 0
    /\ ~is_can_initialised
    /\ ~chan_open

\* C15: for every valid frame (identifier 0..0x7FF, length 0..8, 8 payload
\* bytes) the can_message_t that can_read fills from the TPCANMsg that
\* can_write built has the same identifier, length and payload.
C15_RoundTrip ==
    (codec.pc = "done" /\ codec.by = "can_write"
        /\ call.op = "CAN_Read" /\ call.ret = PCAN_ERROR_OK)
        => /\ call.msg = WireFrame(codec.message)
           /\ codec.received.id = codec.message.id
           /\ codec.received.length = codec.message.length
           /\ codec.received.data = codec.message.data

\* C15 witness: the frame with the largest identifier, the largest length
\* and a payload of distinct bytes has been written and read back.
C15_Witness ==
    /\ codec.pc = "done"
    /\ codec.by = "can_write"
    /\ call.op = "CAN_Read"
    /\ call.ret = PCAN_ERROR_OK
    /\ codec.message.id = STANDARD_ID_MAX
    /\ codec.message.length = CAN_MAX_DLC
    /\ codec.message.data = <<1, 2, 3, 4, 5, 6, 7, 8>>
    /\ codec.received = codec.message

\* C16: every frame handed to CAN_Write has an identifier within 0..0x7FF
\* and a length within 0..8, whatever integers lua_can_write was given.
C16_WrittenFrameInRange ==
    call.op = "CAN_Write"
        => /\ call.msg.ID \in 0..STANDARD_ID_MAX
           /\ call.msg.LEN \in 0..CAN_MAX_DLC

\* C17: can_monitor (started with a non-null core) never returns while
\* is_running is true, whatever statuses the driver returned: the only step
\* that leaves the loop is the test of line 233 reading is_running false.
C17_ReturnsOnlyOnStop ==
    [][(mpc # "m_done" /\ mpc' = "m_done")
          => (~is_running /\ mpc = "m_outer")]_vars

\* C17 witness: an open attempt has failed with PCAN_ERROR_NODRIVER and the
\* monitor, still running, is on its way to the next attempt.
C17_Witness ==
    /\ is_running
    /\ mpc = "m_delay"
    /\ m_ret = PCAN_ERROR_NODRIVER
    /\ can_status = PCAN_ERROR_NODRIVER
    /\ ~is_can_initialised

\* The monitor's step that stores SDL_TRUE in is_can_initialised.
FlagSet == ~is_can_initialised /\ is_can_initialised'

\* From here on the dongle is there and the command thread is quiet: no
\* can_set_baud_rate, can_deinit or can_quit is in progress, no stop is given.
OpenWouldSucceed ==
    Started /\ is_running /\ hw_attached /\ cpc = "idle"

\* C18: while running and disconnected the monitor goes on to another open
\* attempt after every failed one, whatever the status; is_can_initialised
\* is set only after an open attempt that returned Ok; and (the monitor
\* being scheduled) if from some point on the open would succeed and the
\* command thread stays quiet, the channel eventually connects.
C18_RetryUntilConnected ==
    /\ [][/\ (mpc = "m_okay" /\ mpc' # mpc /\ ~IsOk(m_ret))
               => mpc' = "m_delay"
          /\ (mpc = "m_delay" /\ mpc' # mpc) => mpc' = "m_inner"
          /\ (mpc = "m_inner" /\ mpc' # mpc /\ ~is_can_initialised)
               => mpc' = "m_switch"
          /\ (mpc = "m_switch" /\ mpc' # mpc) => mpc' = "m_open"
          /\ FlagSet => (mpc = "m_flag" /\ m_ret = PCAN_ERROR_OK)]_vars
    /\ ([]OpenWouldSucceed) ~> is_can_initialised

\* C19: CAN_Uninitialize is invoked by the monitor's removal branch, by
\* can_set_baud_rate and by can_quit only while a handle is open (the same
\* handle is never closed twice), and can_set_baud_rate called while the
\* flag is false makes no driver call at all.
C19_CloseOnlyWhenOpen ==
    [][/\ (mpc = "m_rm_uninit" /\ mpc' # mpc) => chan_open
       /\ (cpc = "deinit_uninit" /\ cpc' # cpc
              /\ c_op \in {"can_set_baud_rate", "can_quit"}) => chan_open
       /\ (cpc = "sbr_test" /\ cpc' # cpc /\ ~is_can_initialised)
              => (cpc' = "idle" /\ call' = NoCall)]_vars

\* C20: once can_set_baud_rate(n) has returned, and until it is called
\* again, the stored baud_rate is n: the monitor never overwrites it, not
\* even when the call came after can_init and before the monitor's first
\* step.
C20_RequestedRateKept ==
    (Started /\ requested # NoRequest /\ c_op # "can_set_baud_rate")
        => baud_rate = requested

=============================================================================
